---- MODULE Spec2Model ----
(***************************************************************************)
(* Model of src/tilecoding.py: class tilecoder (constructor __init__,      *)
(* property n_tiles, query __getitem__) and the way example() uses it.     *)
(*                                                                         *)
(* Real numbers are exact rationals <<numerator, denominator>>; the        *)
(* arithmetic of the source is carried out on them and astype(int) is the  *)
(* truncation toward zero of the quotient.  Floating-point rounding is not *)
(* modelled.  numpy broadcasting is modelled by Compatible / Bc / At.      *)
(* np.int is the integer type of the numpy releases the file was written   *)
(* for.                                                                    *)
(***************************************************************************)
EXTENDS Integers, Sequences, FiniteSets, TLC

VARIABLES phase, dims, tilings, offset, limits, offsets, norm_dims,
          tile_base_ind, hash_vec, n_tiles, x, ret, res

args == <<dims, tilings, offset>>
geometry == <<limits, offsets, norm_dims, tile_base_ind, hash_vec, n_tiles>>
query == <<x, ret, res>>
vars == <<phase, dims, tilings, offset, limits, offsets, norm_dims,
          tile_base_ind, hash_vec, n_tiles, x, ret, res>>

(* ---------------------------- bounds ----------------------------------- *)
\* largest tile count per dimension, largest number of tilings
MaxDim == 2
MaxTilings == 2
\* the ranges used are (LimitMin, LimitMin + 1) and its inversion
LimitMin == 1
\* query coordinates are multiples of 1/PDen, up to PointSpan steps outside
\* the range
PDen == 4
PointSpan == 2
\* the coarser grid of the points queried repeatedly: multiples of
\* 1/CoarseDen, up to one step outside the range
CoarseDen == 2

(* --------------------------- rationals --------------------------------- *)
Abs(n) == IF n < 0 THEN -n ELSE n
Sgn(n) == IF n < 0 THEN -1 ELSE IF n > 0 THEN 1 ELSE 0
Rat(n) == <<n, 1>>
RAdd(a, b) == <<a[1] * b[2] + b[1] * a[2], a[2] * b[2]>>
RSub(a, b) == <<a[1] * b[2] - b[1] * a[2], a[2] * b[2]>>
RMul(a, b) == <<a[1] * b[1], a[2] * b[2]>>
\* a < b and a <= b for rationals with non-zero denominators
RLess(a, b) == a[1] * b[2] * Sgn(a[2]) * Sgn(b[2]) < b[1] * a[2] * Sgn(a[2]) * Sgn(b[2])
RLeq(a, b) == a[1] * b[2] * Sgn(a[2]) * Sgn(b[2]) <= b[1] * a[2] * Sgn(a[2]) * Sgn(b[2])

\* variant: rounding to the nearest integer instead of truncating
AsTypeIntRound(r) == (2 * r[1] * Sgn(r[2]) + Abs(r[2])) \div (2 * Abs(r[2]))
\* ndarray.astype(int) on a finite float: truncation toward zero
AsTypeInt(r) == Sgn(r[1]) * Sgn(r[2]) * (Abs(r[1]) \div Abs(r[2]))
\* mathematical floor, used only to state the properties
Floor(r) == (r[1] * Sgn(r[2])) \div Abs(r[2])

(* ----------------------- numpy array helpers --------------------------- *)
\* shapes (a,) and (b,) broadcast together
Compatible(a, b) == a = b \/ a = 1 \/ b = 1
Bc(a, b) == IF a = 1 THEN b ELSE a
\* element i of a one-dimensional array stretched by broadcasting
At(arr, i) == IF Len(arr) = 1 THEN arr[1] ELSE arr[i]

RECURSIVE Prod(_)
Prod(s) == IF s = <<>> THEN 1 ELSE s[1] * Prod(Tail(s))

RECURSIVE Dot(_, _)
Dot(a, b) == IF a = <<>> THEN 0 ELSE a[1] * b[1] + Dot(Tail(a), Tail(b))

\* np.arange(n) as a 1-based sequence; empty for n <= 0
Arange(n) == [i \in 1..n |-> i - 1]

(* --------------------------- __init__ ---------------------------------- *)
\* the offset argument: a function from the number of dimensions to a vector
OffsetRules == {"default", "zeros", "twos"}
\* variant: the default rule returns ones instead of the odd numbers
OffsetVecOnes(rule, n) ==
  IF rule = "default" THEN [i \in 1..n |-> 1]
  ELSE IF rule = "zeros" THEN [i \in 1..n |-> 0]
  ELSE [i \in 1..n |-> 2]
OffsetVec(rule, n) ==
  IF rule = "default" THEN [i \in 1..n |-> 2 * (i - 1) + 1]
  ELSE IF rule = "zeros" THEN [i \in 1..n |-> 0]
  ELSE [i \in 1..n |-> 2]

\* variant: one extra cell per dimension whatever the offset
TilingDimsPlusOne(d, off) == [i \in 1..Len(d) |-> d[i] + off[i] + 1]
TilingDims(d, off) == [i \in 1..Len(d) |-> d[i] + off[i]]

Offsets(d, t, off) ==
  [tt \in 1..Len(Arange(t)) |-> [i \in 1..Len(d) |-> <<off[i] * Arange(t)[tt], t>>]]

NormDims(d, l) ==
  [i \in 1..Bc(Len(d), Len(l)) |-> <<At(d, i), At(l, i)[2] - At(l, i)[1]>>]

\* variant: blocks one index too short
TileBaseIndShort(td, t) == [tt \in 1..Len(Arange(t)) |-> (Prod(td) - 1) * Arange(t)[tt]]
TileBaseInd(td, t) == [tt \in 1..Len(Arange(t)) |-> Prod(td) * Arange(t)[tt]]

RECURSIVE HashVecShort(_, _)
\* variant: strides one too small
HashVecShort(td, n) ==
  IF n = 1 THEN <<1>>
  ELSE LET h == HashVecShort(td, n - 1) IN Append(h, (td[n - 1] - 1) * h[n - 1])

RECURSIVE HashVec(_, _)
\* hash_vec[1..n] for tiling dimensions td
HashVec(td, n) ==
  IF n = 1 THEN <<1>>
  ELSE LET h == HashVec(td, n - 1) IN Append(h, td[n - 1] * h[n - 1])

NTiles(td, t) == t * Prod(td)

\* lines 9 and 10 have assigned _offsets and _limits when line 11 raises; the
\* exception leaves the caller without an object
\* line 11 raises: indexing [:, 1] of an empty array, or shapes that do not broadcast
InitRaises(d, l) == l = <<>> \/ ~Compatible(Len(d), Len(l))

Construct(d, l, t, o) ==
  /\ phase = "new"
  /\ dims' = d
  /\ tilings' = t
  /\ offset' = o
  /\ IF InitRaises(d, l)
     THEN /\ phase' = "raised"
          /\ offsets' = Offsets(d, t, OffsetVec(o, Len(d)))
          /\ limits' = l
          /\ UNCHANGED <<norm_dims, tile_base_ind, hash_vec, n_tiles>>
     ELSE /\ phase' = "ready"
          /\ limits' = l
          /\ offsets' = Offsets(d, t, OffsetVec(o, Len(d)))
          /\ norm_dims' = NormDims(d, l)
          /\ tile_base_ind' = TileBaseInd(TilingDims(d, OffsetVec(o, Len(d))), t)
          /\ hash_vec' = HashVec(TilingDims(d, OffsetVec(o, Len(d))), Len(d))
          /\ n_tiles' = NTiles(TilingDims(d, OffsetVec(o, Len(d))), t)
  /\ UNCHANGED query

(* -------------------------- __getitem__ -------------------------------- *)
\* variant: the lower limit is not subtracted
ScaledNoMin(p, lim, nd, offs, tt, i) ==
  RAdd(RMul(At(p, i), At(nd, i)), At(offs[tt], i))

\* (x - limits[:, 0]) * norm_dims + offsets, row tt, column i, before the cast
Scaled(p, lim, nd, offs, tt, i) ==
  RAdd(RMul(RSub(At(p, i), Rat(At(lim, i)[1])), At(nd, i)), At(offs[tt], i))

\* length of the last axis of (x - limits[:, 0]) * norm_dims
RowLen(p, lim, nd) == Bc(Bc(Len(p), Len(lim)), Len(nd))

OffCoords(p, lim, nd, offs) ==
  [tt \in 1..Len(offs) |->
     [i \in 1..Bc(RowLen(p, lim, nd), Len(offs[tt])) |->
        AsTypeInt(Scaled(p, lim, nd, offs, tt, i))]]

\* variant: a point outside the limits is rejected
GetItemRaisesChecked(p, lim, nd, hv) ==
  \/ ~Compatible(Len(p), Len(lim))
  \/ ~Compatible(Bc(Len(p), Len(lim)), Len(nd))
  \/ ~Compatible(Bc(Bc(Len(p), Len(lim)), Len(nd)), Len(hv))
  \/ Bc(Bc(Bc(Len(p), Len(lim)), Len(nd)), Len(hv)) # Len(hv)
  \/ \E i \in 1..Len(p) :
        \/ RLess(At(p, i), Rat(At(lim, i)[1]))
        \/ RLeq(Rat(At(lim, i)[2]), At(p, i))

\* the broadcasts of line 23 fail, or np.dot finds the last axis of
\* off_coords different from the length of hash_vec
GetItemRaises(p, lim, nd, hv) ==
  \/ ~Compatible(Len(p), Len(lim))
  \/ ~Compatible(Bc(Len(p), Len(lim)), Len(nd))
  \/ ~Compatible(RowLen(p, lim, nd), Len(hv))
  \/ Bc(RowLen(p, lim, nd), Len(hv)) # Len(hv)

\* variant: the last tiling is dropped
GetItemResultShort(p, lim, nd, offs, tb, hv) ==
  [tt \in 1..(Len(tb) - 1) |-> tb[tt] + Dot(OffCoords(p, lim, nd, offs)[tt], hv)]

GetItemResult(p, lim, nd, offs, tb, hv) ==
  [tt \in 1..Len(tb) |-> tb[tt] + Dot(OffCoords(p, lim, nd, offs)[tt], hv)]

\* variant: the sum is accumulated in place into _tile_base_ind
GetItemInPlace(p) ==
  /\ phase = "ready"
  /\ x' = p
  /\ IF GetItemRaises(p, limits, norm_dims, hash_vec)
     THEN /\ ret' = "error"
          /\ res' = <<>>
          /\ tile_base_ind' = tile_base_ind
     ELSE /\ ret' = "ok"
          /\ res' = GetItemResult(p, limits, norm_dims, offsets, tile_base_ind, hash_vec)
          /\ tile_base_ind' = res'
  /\ UNCHANGED <<phase, args, limits, offsets, norm_dims, hash_vec, n_tiles>>

GetItem(p) ==
  /\ phase = "ready"
  /\ x' = p
  /\ IF GetItemRaises(p, limits, norm_dims, hash_vec)
     THEN /\ ret' = "error"
          /\ res' = <<>>
     ELSE /\ ret' = "ok"
          /\ res' = GetItemResult(p, limits, norm_dims, offsets, tile_base_ind, hash_vec)
  /\ UNCHANGED <<phase, args, geometry>>

(* ------------------------------ inputs --------------------------------- *)
DimCounts == {1, 2}
DimsArgs == UNION {[1..n -> 1..MaxDim] : n \in DimCounts}
\* (min, max) pairs; max = min is left out: the division of line 11 then
\* yields inf and the cast of line 23 has no defined value
LimitPairs == {<<LimitMin, LimitMin + 1>>, <<LimitMin + 1, LimitMin>>}
LimitsArgs == UNION {[1..n -> LimitPairs] : n \in DimCounts \cup {0}}
TilingsArgs == 0..MaxTilings
Coord1 == {<<k, PDen>> : k \in (LimitMin * PDen - PointSpan)..((LimitMin + 1) * PDen + PointSpan)}
Points(n) == [1..n -> Coord1]
CoarseCoord1 == {<<k, CoarseDen>> : k \in (LimitMin * CoarseDen - 1)..((LimitMin + 1) * CoarseDen + 1)}
CoarsePoints(n) == [1..n -> CoarseCoord1]

Init ==
  /\ phase = "new"
  /\ dims = <<>>
  /\ tilings = 0
  /\ offset = "default"
  /\ limits = <<>>
  /\ offsets = <<>>
  /\ norm_dims = <<>>
  /\ tile_base_ind = <<>>
  /\ hash_vec = <<>>
  /\ n_tiles = 0
  /\ x = <<>>
  /\ ret = "none"
  /\ res = <<>>

New == \E d \in DimsArgs, l \in LimitsArgs, t \in TilingsArgs, o \in OffsetRules : Construct(d, l, t, o)
\* an encoder, once constructed, is queried any number of times
Query == \E p \in CoarsePoints(Len(dims)) : GetItem(p)

Next == New \/ Query

Spec == Init /\ [][Next]_vars

\* the query as a function of the constructor's arguments and one point
QueryOnce == ret = "none" /\ \E p \in Points(Len(dims)) : GetItem(p)

NextOnce == New \/ QueryOnce

SpecOnce == Init /\ [][NextOnce]_vars

(* ------------- example(): dims [8, 8], limits (0, 2 pi), 8 tilings ------ *)
\* lengths are measured in units of 2 pi, so the range (0, 2 pi) is (0, 1)
ExampleTilings == 8
ExampleDen == 16
ExampleDims == <<8, 8>>
ExampleLims == <<<<0, 1>>, <<0, 1>>>>
\* lims[d][0] + random() * (lims[d][1] - lims[d][0]) with random() in [0, 1)
ExamplePoints == [1..2 -> {<<k, ExampleDen>> : k \in 0..(ExampleDen - 1)}]

NewExample == Construct(ExampleDims, ExampleLims, ExampleTilings, "default")
QueryExample == \E p \in ExamplePoints : GetItem(p)
NextExample == NewExample \/ QueryExample
SpecExample == Init /\ [][NextExample]_vars

(* ------- dims [1, 1], limits (0, 1), one tiling, offset rule zeros ------ *)
UnitDims == <<1, 1>>
UnitLims == <<<<0, 1>>, <<0, 1>>>>
TenthPoints == [1..2 -> {<<k, 10>> : k \in 0..9}]

NewNoStagger == Construct(UnitDims, UnitLims, 1, "zeros")
QueryNoStagger == \E p \in TenthPoints : GetItem(p)
NextNoStagger == NewNoStagger \/ QueryNoStagger
SpecNoStagger == Init /\ [][NextNoStagger]_vars

(* ======================= properties ==================================== *)
\* the geometry of the specification, from the constructor's arguments
SpecOff == OffsetVec(offset, Len(dims))
SpecTilingDims == [i \in 1..Len(dims) |-> dims[i] + SpecOff[i]]
SpecProduct == Prod(SpecTilingDims)
TotalTiles == tilings * SpecProduct
SpecTileBase(t) == SpecProduct * (t - 1)
SpecStride(i) == Prod(SubSeq(SpecTilingDims, 1, i - 1))
SpecScaled(p, t, i) ==
  RAdd(RMul(RSub(p[i], Rat(limits[i][1])), <<dims[i], limits[i][2] - limits[i][1]>>),
       <<SpecOff[i] * (t - 1), tilings>>)
SpecCoord(p, t, i) == Floor(SpecScaled(p, t, i))
SpecLocalIndex(p, t) == Dot([i \in 1..Len(dims) |-> SpecCoord(p, t, i)], hash_vec)

ValidGeometry ==
  /\ phase = "ready"
  /\ Len(limits) = Len(dims)
  /\ \A i \in 1..Len(limits) : limits[i][2] > limits[i][1]
  /\ tilings >= 1
InRange(p) ==
  /\ Len(p) = Len(limits)
  /\ \A i \in 1..Len(p) : RLeq(Rat(limits[i][1]), p[i]) /\ RLess(p[i], Rat(limits[i][2]))
InRangePoints == {q \in Points(Len(dims)) : InRange(q)}
Queried == ret # "none"
\* the query applied to q on the encoder's current geometry
IndicesFor(q) == GetItemResult(q, limits, norm_dims, offsets, tile_base_ind, hash_vec)
CoordsOf(q) == OffCoords(q, limits, norm_dims, offsets)

ConstructionValidation ==
  (/\ phase # "new"
   /\ \/ Len(dims) # Len(limits)
      \/ \E i \in 1..Len(limits) : limits[i][2] <= limits[i][1]
      \/ tilings <= 0)
  => phase = "raised"

\* C4 (as stated): in example()'s geometry totalTiles = 8 * 9 * 9 = 648 and a
\* query returns exactly 8 indices, each below 648
ExampleAsStated ==
  phase = "ready" =>
    /\ n_tiles = 8 * 9 * 9
    /\ Queried => (ret = "ok" /\ Len(res) = 8 /\ \A t \in 1..Len(res) : res[t] < 8 * 9 * 9)
\* C4 (amended): in example()'s geometry totalTiles = 8 * 9 * 11 = 792 and a
\* query on an in-range point returns exactly 8 indices, each in [0, 792)
ExampleTotalTiles ==
  phase = "ready" =>
    /\ n_tiles = 8 * 9 * 11
    /\ Queried => (ret = "ok" /\ Len(res) = 8 /\ \A t \in 1..Len(res) : 0 <= res[t] /\ res[t] < 8 * 9 * 11)
ExampleWitness ==
  /\ phase = "ready" /\ ret = "ok" /\ InRange(x)
  /\ n_tiles = 792
  /\ \E t \in 1..Len(res) : res[t] >= 648

\* C5 (as stated): without stagger totalTiles = 4, (0.1, 0.1) gives index 0 and
\* (0.9, 0.9) gives index 3
NoStaggerAsStated ==
  phase = "ready" =>
    /\ n_tiles = 4
    /\ (Queried /\ x = <<<<1, 10>>, <<1, 10>>>>) => res = <<0>>
    /\ (Queried /\ x = <<<<9, 10>>, <<9, 10>>>>) => res = <<3>>
\* C5 (amended): without stagger totalTiles = 1 * 1 * 1 = 1, and both (0.1, 0.1)
\* and (0.9, 0.9) give the single index 0
NoStaggerSingleTile ==
  phase = "ready" =>
    /\ n_tiles = 1
    /\ (Queried /\ x = <<<<1, 10>>, <<1, 10>>>>) => (ret = "ok" /\ res = <<0>>)
    /\ (Queried /\ x = <<<<9, 10>>, <<9, 10>>>>) => (ret = "ok" /\ res = <<0>>)
NoStaggerWitness ==
  /\ phase = "ready" /\ ret = "ok"
  /\ x = <<<<9, 10>>, <<9, 10>>>>
  /\ res = <<0>>
  /\ n_tiles = 1

\* C6: a query leaves the constructor's arguments and all derived geometry
\* unchanged, and a query of the point queried just before returns the same indices
QueryIsPure ==
  [][(phase = "ready" /\ phase' = "ready") =>
       /\ geometry' = geometry
       /\ args' = args
       /\ (Queried /\ x' = x) => (ret' = ret /\ res' = res)]_vars
PureWitness ==
  /\ phase = "ready" /\ ret = "ok"
  /\ Len(dims) = 2 /\ Len(res) = MaxTilings
  /\ res = IndicesFor(x)

\* C7: in-range points in the same cell of tiling t get the same index for t;
\* a point that differs in one dimension d only and lies in another cell there
\* keeps the other coordinates and moves the index by (coord change) * hashVec[d]
NeighbourContinuity ==
  (ValidGeometry /\ ret = "ok" /\ InRange(x)) =>
    \A q \in InRangePoints : \A t \in 1..tilings :
      /\ (\A i \in 1..Len(dims) : SpecCoord(q, t, i) = SpecCoord(x, t, i))
           => IndicesFor(q)[t] = res[t]
      /\ \A d \in 1..Len(dims) :
           (/\ \A i \in 1..Len(dims) : i # d => q[i] = x[i]
            /\ SpecCoord(q, t, d) # SpecCoord(x, t, d))
           => /\ \A i \in 1..Len(dims) : i # d => CoordsOf(q)[t][i] = CoordsOf(x)[t][i]
              /\ CoordsOf(q)[t][d] = SpecCoord(q, t, d)
              /\ IndicesFor(q)[t] - res[t] = (SpecCoord(q, t, d) - SpecCoord(x, t, d)) * SpecStride(d)
              /\ IndicesFor(q)[t] # res[t]
ContinuityWitness ==
  /\ ValidGeometry /\ ret = "ok" /\ InRange(x)
  /\ Len(dims) = 2 /\ tilings = 2
  /\ \E q \in InRangePoints :
       /\ q # x
       /\ \A i \in 1..2 : SpecCoord(q, 2, i) = SpecCoord(x, 2, i)
  /\ \E q \in InRangePoints :
       /\ q[1] = x[1]
       /\ SpecCoord(q, 2, 2) # SpecCoord(x, 2, 2)

\* C8: the query returns exactly numTilings indices and the t-th is
\* tileBase[t] + localIndex[t]
CountInvariant ==
  (ValidGeometry /\ Queried /\ InRange(x)) =>
    /\ ret = "ok"
    /\ Len(res) = tilings
    /\ \A t \in 1..Len(res) : res[t] = SpecTileBase(t) + SpecLocalIndex(x, t)
CountWitness ==
  /\ ValidGeometry /\ InRange(x) /\ ret = "ok"
  /\ tilings = MaxTilings /\ Len(res) = MaxTilings
  /\ Len(dims) = 2
  /\ SpecLocalIndex(x, MaxTilings) > 0

\* C9: for a point outside the range the query raises nothing and returns
\* numTilings indices computed by the same arithmetic
OutOfRangePolicy ==
  (ValidGeometry /\ Queried /\ Len(x) = Len(dims) /\ ~InRange(x)) =>
    /\ ret = "ok"
    /\ Len(res) = tilings
    /\ \A t \in 1..Len(res) :
         res[t] = tile_base_ind[t] +
                  Dot([i \in 1..Len(dims) |-> AsTypeInt(SpecScaled(x, t, i))], hash_vec)
\* ... and some such index is outside [0, totalTiles): above, for the last tiling
OutOfRangeWitness ==
  /\ ValidGeometry /\ ret = "ok" /\ ~InRange(x)
  /\ RLeq(Rat(limits[Len(dims)][2]), x[Len(dims)])
  /\ res[tilings] >= TotalTiles
\* ... or below, for tiling 0
OutOfRangeBelow ==
  /\ ValidGeometry /\ ret = "ok" /\ ~InRange(x)
  /\ res[1] < 0

====
